---- MODULE Spec2Model ----
(***************************************************************************)
(* QR generation service: the Generation Service (qr.service.Generate),    *)
(* the Request Handler (transport Handler.Generate / Handler.HealthCheck)  *)
(* and the Process Supervisor (main).                                      *)
(*                                                                         *)
(* Strings that the code parses (the size query value) are sequences of    *)
(* one-character strings; byte slices are sequences of integers.  The      *)
(* Encoding Engine (qrcode.Encode), the transport's body delivery and the  *)
(* ResponseWriter are external: their outcomes are inputs drawn from       *)
(* small sets.                                                             *)
(***************************************************************************)
EXTENDS Integers, Sequences, FiniteSets, TLC

VARIABLES
    maxBodySize,   \* Handler.maxBodySize, fixed at construction
    inflight,      \* HTTP requests accepted by the server and not yet handled
    pending,       \* direct calls of Service.Generate not yet made
    req,           \* the request the last handler invocation served
    resp,          \* what the last handler invocation handed to the ResponseWriter
    bodyRead,      \* whether the last handler invocation read r.Body
    svcCalls,      \* the Service.Generate calls made by the last operation
    svcResult,     \* what the last Service.Generate invocation returned
    engineCalls,   \* the qrcode.Encode calls made by the last operation
    trace,         \* the steps the last operation went through, in order
    mainPc,        \* position of main()
    servePc,       \* position of the goroutine running srv.ListenAndServe
    quit,          \* number of signals buffered in the quit channel (cap 1)
    inShutdown,    \* srv.Shutdown has been called
    serveErr,      \* what srv.ListenAndServe returned to the goroutine
    shutdownErr,   \* what srv.Shutdown returned to main
    exited,        \* the process has terminated
    exitCode,      \* its exit code, -1 while running
    exitCause      \* which statement terminated it

hvars == <<req, resp, bodyRead, svcCalls, svcResult, engineCalls, trace>>
lvars == <<mainPc, servePc, quit, inShutdown, serveErr, shutdownErr,
          exited, exitCode, exitCause>>
vars == <<maxBodySize, inflight, pending, hvars, lvars>>

----------------------------------------------------------------------------
(* Bounds of the model *)

\* largest configured maximum body size
MaxBodyLimit == 1
\* longest size query value enumerated exhaustively
MaxSizeStrLen == 1
\* most requests in flight at once in the lifecycle specification
MaxInflight == 1

\* bodies may exceed every configured limit by one byte
MaxBodyLen == MaxBodyLimit + 1

(* Program constants *)
maxSize == 2048
defaultSize == 256
StatusOK == 200
StatusBadRequest == 400
StatusMethodNotAllowed == 405
StatusRequestEntityTooLarge == 413
StatusInternalServerError == 500

----------------------------------------------------------------------------
(* Input sets *)

Bytes == {97, 98}
Chars == {"0", "1", "9", "a", "-", "+"}
Methods == {"GET", "POST", "PUT"}

SeqsUpTo(S, n) == UNION {[1..k -> S] : k \in 0..n}

Bodies == SeqsUpTo(Bytes, MaxBodyLen)

\* size values enumerated in addition to every short string over Chars
BoundaryStrs ==
    { <<"2","0","4","8">>, <<"2","0","4","9">>, <<"2","0","4","7">>,
      <<"2","5","6">>, <<"1","2","8">>, <<"5","0","0","0">>,
      <<"a","b","c">>, <<"0","0","0","1">>, <<"+","2","0","4","8">>,
      <<"-","2","5","6">>, <<"1","2","8","x">>, <<" ","1">>, <<"1",".","5">>,
      <<"1","0">>, <<"0","0">>, <<"+","1">>, <<"-","1">>, <<"-","0">>,
      <<"1","a">>, <<"a","1">>, <<"+","-">> }

SizeStrs == SeqsUpTo(Chars, MaxSizeStrLen) \cup BoundaryStrs

\* url.Values["size"]: no value, or the values given for the key in order
Queries == {<<>>} \cup {<<v>> : v \in SizeStrs}

\* failAt of a body the transport delivers whole
NoFail == 0 - 1

GenerateRequests ==
    UNION { { [route |-> "/generate", method |-> m, query |-> q, body |-> b, failAt |-> f] :
                m \in Methods, q \in Queries, f \in {NoFail} \cup (0..Len(b)) } :
            b \in Bodies }

HealthRequests ==
    { [route |-> "/health", method |-> m, query |-> <<>>, body |-> b, failAt |-> NoFail] :
        m \in Methods, b \in Bodies }

\* sizes for direct calls of Service.Generate
CallSizes == {-1, 0, 1, 2, defaultSize, maxSize - 1, maxSize, maxSize + 1, 5000}

DirectCalls == [data : Bodies, size : CallSizes]

\* what qrcode.Encode can return: PNG bytes (never empty: a PNG starts with
\* its signature) or an error
Pngs == { <<137, 80>>, <<137, 80, 78>> }

EngineOutcomes ==
    [ok : {TRUE}, png : Pngs, cause : {""}]
        \cup [ok : {FALSE}, png : {<<>>}, cause : {"content too long to encode"}]

----------------------------------------------------------------------------
(* Generation Service *)

NilErr == "<nil>"

\* a recorded qrcode.Encode(content, level, size) call and what it returned
EngineCall(data, size, eng) ==
    [content |-> data, level |-> "Medium", size |-> size, out |-> eng]

ServiceGenerate_NoUpperBound(data, size, eng) ==
    IF Len(data) = 0
    THEN [png |-> <<>>, err |-> "data cannot be empty",
          engine |-> <<>>, steps |-> <<"validate">>]
    ELSE IF size <= 0
    THEN [png |-> <<>>, err |-> "invalid size: must be between 1 and 2048",
          engine |-> <<>>, steps |-> <<"validate">>]
    ELSE IF ~eng.ok
    THEN [png |-> <<>>, err |-> "failed to encode QR code: " \o eng.cause,
          engine |-> <<EngineCall(data, size, eng)>>, steps |-> <<"validate", "encode">>]
    ELSE [png |-> eng.png, err |-> NilErr,
          engine |-> <<EngineCall(data, size, eng)>>, steps |-> <<"validate", "encode">>]

ServiceGenerate_DropsLastByte(data, size, eng) ==
    IF Len(data) = 0
    THEN [png |-> <<>>, err |-> "data cannot be empty",
          engine |-> <<>>, steps |-> <<"validate">>]
    ELSE IF size <= 0 \/ size > 2048
    THEN [png |-> <<>>, err |-> "invalid size: must be between 1 and 2048",
          engine |-> <<>>, steps |-> <<"validate">>]
    ELSE IF ~eng.ok
    THEN [png |-> <<>>, err |-> "failed to encode QR code: " \o eng.cause,
          engine |-> <<EngineCall(data, size, eng)>>, steps |-> <<"validate", "encode">>]
    ELSE [png |-> SubSeq(eng.png, 1, Len(eng.png) - 1), err |-> NilErr,
          engine |-> <<EngineCall(data, size, eng)>>, steps |-> <<"validate", "encode">>]

\* qr.service.Generate(data, size), with eng the outcome of the engine call
\* should one be made
ServiceGenerate(data, size, eng) ==
    IF Len(data) = 0
    THEN [png |-> <<>>, err |-> "data cannot be empty",
          engine |-> <<>>, steps |-> <<"validate">>]
    ELSE IF size <= 0 \/ size > 2048
    THEN [png |-> <<>>, err |-> "invalid size: must be between 1 and 2048",
          engine |-> <<>>, steps |-> <<"validate">>]
    ELSE IF ~eng.ok
    THEN [png |-> <<>>, err |-> "failed to encode QR code: " \o eng.cause,
          engine |-> <<EngineCall(data, size, eng)>>, steps |-> <<"validate", "encode">>]
    ELSE [png |-> eng.png, err |-> NilErr,
          engine |-> <<EngineCall(data, size, eng)>>, steps |-> <<"validate", "encode">>]

----------------------------------------------------------------------------
(* Request Handler *)

\* strconv.Atoi on a value shorter than 19 characters: optional sign, then
\* decimal digits only
DigitVal(c) ==
    CASE c = "0" -> 0 [] c = "1" -> 1 [] c = "2" -> 2 [] c = "3" -> 3
      [] c = "4" -> 4 [] c = "5" -> 5 [] c = "6" -> 6 [] c = "7" -> 7
      [] c = "8" -> 8 [] c = "9" -> 9 [] OTHER -> -1

RECURSIVE ParseDigits(_, _)
ParseDigits(s, n) ==
    IF s = <<>> THEN [n |-> n, err |-> FALSE]
    ELSE IF DigitVal(Head(s)) = -1 THEN [n |-> 0, err |-> TRUE]
    ELSE ParseDigits(Tail(s), n * 10 + DigitVal(Head(s)))

Atoi(s) ==
    IF s = <<>> THEN [n |-> 0, err |-> TRUE]
    ELSE LET digits == IF Head(s) \in {"-", "+"} THEN Tail(s) ELSE s
             r == ParseDigits(digits, 0)
         IN  IF digits = <<>> \/ r.err THEN [n |-> 0, err |-> TRUE]
             ELSE [n |-> IF Head(s) = "-" THEN 0 - r.n ELSE r.n, err |-> FALSE]

\* r.URL.Query().Get("size"): the first value of the key, "" when there is none
QueryGet(query) == IF Len(query) = 0 THEN <<>> ELSE query[1]

MethodAllowed_PutToo(method) == method \in {"POST", "PUT"}

\* the method check of Handler.Generate
MethodAllowed(method) == method = "POST"

ReadBody_OffByOne(body, failAt, n) ==
    LET limit == IF n < 0 THEN 0 ELSE n
        delivered == IF failAt = NoFail THEN Len(body) ELSE failAt
    IN  IF delivered >= limit THEN [err |-> "MaxBytesError", data |-> SubSeq(body, 1, limit)]
        ELSE IF failAt # NoFail THEN [err |-> "ReadError", data |-> SubSeq(body, 1, delivered)]
        ELSE [err |-> NilErr, data |-> body]

\* io.ReadAll(http.MaxBytesReader(w, r.Body, n)): the transport delivers the
\* whole body, or fails after failAt bytes; more than n delivered bytes is a
\* MaxBytesError
ReadBody(body, failAt, n) ==
    LET limit == IF n < 0 THEN 0 ELSE n
        delivered == IF failAt = NoFail THEN Len(body) ELSE failAt
    IN  IF delivered > limit THEN [err |-> "MaxBytesError", data |-> SubSeq(body, 1, limit)]
        ELSE IF failAt # NoFail THEN [err |-> "ReadError", data |-> SubSeq(body, 1, delivered)]
        ELSE [err |-> NilErr, data |-> body]

BodyEmpty_Never(data) == FALSE

\* the emptiness check of Handler.Generate
BodyEmpty(data) == Len(data) = 0

SizeParam_OffByOne(query) ==
    LET sizeStr == QueryGet(query)
        parsed == Atoi(sizeStr)
    IN  IF sizeStr # <<>>
        THEN IF parsed.err \/ parsed.n <= 0 \/ parsed.n >= maxSize
             THEN [ok |-> FALSE, size |-> defaultSize]
             ELSE [ok |-> TRUE, size |-> parsed.n]
        ELSE [ok |-> TRUE, size |-> defaultSize]

SizeParam_AcceptsZero(query) ==
    LET sizeStr == QueryGet(query)
        parsed == Atoi(sizeStr)
    IN  IF sizeStr # <<>>
        THEN IF parsed.err \/ parsed.n < 0 \/ parsed.n > maxSize
             THEN [ok |-> FALSE, size |-> defaultSize]
             ELSE [ok |-> TRUE, size |-> parsed.n]
        ELSE [ok |-> TRUE, size |-> defaultSize]

\* the size parameter handling of Handler.Generate
SizeParam(query) ==
    LET sizeStr == QueryGet(query)
        parsed == Atoi(sizeStr)
    IN  IF sizeStr # <<>>
        THEN IF parsed.err \/ parsed.n <= 0 \/ parsed.n > maxSize
             THEN [ok |-> FALSE, size |-> defaultSize]
             ELSE [ok |-> TRUE, size |-> parsed.n]
        ELSE [ok |-> TRUE, size |-> defaultSize]

\* http.Error(w, msg, code)
HttpError(msg, code) ==
    [status |-> code, contentType |-> "text/plain; charset=utf-8",
     text |-> msg \o "\n", bytes |-> <<>>]

WriteResult_LeaksCause(res) ==
    IF res.err # NilErr
    THEN HttpError(res.err, StatusInternalServerError)
    ELSE [status |-> StatusOK, contentType |-> "image/png", text |-> "", bytes |-> res.png]

\* the tail of Handler.Generate: the service's result turned into a response
WriteResult(res) ==
    IF res.err # NilErr
    THEN HttpError("Internal server error", StatusInternalServerError)
    ELSE [status |-> StatusOK, contentType |-> "image/png", text |-> "", bytes |-> res.png]

NoResult == [png |-> <<>>, err |-> NilErr, engine |-> <<>>, steps |-> <<>>]

HandlerGenerate_SizeFirst(n, r, eng, writeOk) ==
    LET stop(rsp, read, steps) ==
            [resp |-> rsp, bodyRead |-> read, svcCalls |-> <<>>,
             svcResult |-> NoResult, engineCalls |-> <<>>, trace |-> steps]
        sp == SizeParam(r.query)
        rd == ReadBody(r.body, r.failAt, n)
    IN
    IF ~MethodAllowed(r.method)
    THEN stop(HttpError("Method not allowed", StatusMethodNotAllowed), FALSE, <<"method">>)
    ELSE IF ~sp.ok
    THEN stop(HttpError("Invalid size parameter: must be between 1 and 2048", StatusBadRequest),
              FALSE, <<"method", "size">>)
    ELSE IF rd.err = "MaxBytesError"
    THEN stop(HttpError("Request body too large", StatusRequestEntityTooLarge),
              TRUE, <<"method", "size", "read">>)
    ELSE IF rd.err # NilErr
    THEN stop(HttpError("Failed to read request body", StatusInternalServerError),
              TRUE, <<"method", "size", "read">>)
    ELSE IF BodyEmpty(rd.data)
    THEN stop(HttpError("Request body is empty", StatusBadRequest),
              TRUE, <<"method", "size", "read", "empty">>)
    ELSE LET res == ServiceGenerate(rd.data, sp.size, eng)
             pre == <<"method", "size", "read", "empty">> \o res.steps
         IN  [resp |-> WriteResult(res), bodyRead |-> TRUE,
              svcCalls |-> << [data |-> rd.data, size |-> sp.size] >>,
              svcResult |-> res, engineCalls |-> res.engine,
              trace |-> IF res.err # NilErr THEN pre \o <<"error">>
                        ELSE IF writeOk THEN pre \o <<"write", "completed">>
                        ELSE pre \o <<"write", "write_failed">>]

\* Handler.Generate(w, r) for a handler with limit n; eng is the engine's
\* outcome and writeOk whether w.Write succeeds
HandlerGenerate(n, r, eng, writeOk) ==
    LET stop(rsp, read, steps) ==
            [resp |-> rsp, bodyRead |-> read, svcCalls |-> <<>>,
             svcResult |-> NoResult, engineCalls |-> <<>>, trace |-> steps]
    IN
    IF ~MethodAllowed(r.method)
    THEN stop(HttpError("Method not allowed", StatusMethodNotAllowed), FALSE, <<"method">>)
    ELSE LET rd == ReadBody(r.body, r.failAt, n) IN
    IF rd.err = "MaxBytesError"
    THEN stop(HttpError("Request body too large", StatusRequestEntityTooLarge),
              TRUE, <<"method", "read">>)
    ELSE IF rd.err # NilErr
    THEN stop(HttpError("Failed to read request body", StatusInternalServerError),
              TRUE, <<"method", "read">>)
    ELSE IF BodyEmpty(rd.data)
    THEN stop(HttpError("Request body is empty", StatusBadRequest),
              TRUE, <<"method", "read", "empty">>)
    ELSE LET sp == SizeParam(r.query) IN
    IF ~sp.ok
    THEN stop(HttpError("Invalid size parameter: must be between 1 and 2048", StatusBadRequest),
              TRUE, <<"method", "read", "empty", "size">>)
    ELSE LET res == ServiceGenerate(rd.data, sp.size, eng)
             pre == <<"method", "read", "empty", "size">> \o res.steps
         IN  [resp |-> WriteResult(res), bodyRead |-> TRUE,
              svcCalls |-> << [data |-> rd.data, size |-> sp.size] >>,
              svcResult |-> res, engineCalls |-> res.engine,
              trace |-> IF res.err # NilErr THEN pre \o <<"error">>
                        ELSE IF writeOk THEN pre \o <<"write", "completed">>
                        ELSE pre \o <<"write", "write_failed">>]

HandlerHealthCheck_GetOnly(r, encodeOk) ==
    [resp |-> IF r.method = "GET"
              THEN [status |-> StatusOK, contentType |-> "application/json",
                    text |-> "{\"status\":\"ok\"}\n", bytes |-> <<>>]
              ELSE HttpError("Method not allowed", StatusMethodNotAllowed),
     bodyRead |-> FALSE, svcCalls |-> <<>>, svcResult |-> NoResult,
     engineCalls |-> <<>>,
     trace |-> IF encodeOk THEN <<"health">> ELSE <<"health", "encode_failed">>]

\* Handler.HealthCheck(w, r); encodeOk is whether the JSON encoder's write succeeds
HandlerHealthCheck(r, encodeOk) ==
    [resp |-> [status |-> StatusOK, contentType |-> "application/json",
               text |-> "{\"status\":\"ok\"}\n", bytes |-> <<>>],
     bodyRead |-> FALSE, svcCalls |-> <<>>, svcResult |-> NoResult,
     engineCalls |-> <<>>,
     trace |-> IF encodeOk THEN <<"health">> ELSE <<"health", "encode_failed">>]

----------------------------------------------------------------------------
(* Operations *)

NoReq == [route |-> "none", method |-> "", query |-> <<>>, body |-> <<>>, failAt |-> NoFail]
NoResp == [status |-> 0, contentType |-> "", text |-> "", bytes |-> <<>>]

Remove(s, i) == SubSeq(s, 1, i - 1) \o SubSeq(s, i + 1, Len(s))

Record(r, out) ==
    /\ req' = r
    /\ resp' = out.resp
    /\ bodyRead' = out.bodyRead
    /\ svcCalls' = out.svcCalls
    /\ svcResult' = out.svcResult
    /\ engineCalls' = out.engineCalls
    /\ trace' = out.trace

\* the server runs Handler.Generate for an accepted /generate request
HandleGenerate ==
    /\ ~exited
    /\ \E i \in 1..Len(inflight) :
         /\ inflight[i].route = "/generate"
         /\ \E eng \in EngineOutcomes, writeOk \in BOOLEAN :
              Record(inflight[i], HandlerGenerate(maxBodySize, inflight[i], eng, writeOk))
         /\ inflight' = Remove(inflight, i)
    /\ UNCHANGED <<maxBodySize, pending, lvars>>

\* the server runs Handler.HealthCheck for an accepted /health request
HandleHealthCheck ==
    /\ ~exited
    /\ \E i \in 1..Len(inflight) :
         /\ inflight[i].route = "/health"
         /\ \E encodeOk \in BOOLEAN :
              Record(inflight[i], HandlerHealthCheck(inflight[i], encodeOk))
         /\ inflight' = Remove(inflight, i)
    /\ UNCHANGED <<maxBodySize, pending, lvars>>

\* a caller other than the handler invokes Service.Generate
CallGenerate ==
    /\ ~exited
    /\ pending # <<>>
    /\ \E eng \in EngineOutcomes :
         LET c == Head(pending)
             res == ServiceGenerate(c.data, c.size, eng)
         IN  /\ req' = NoReq
             /\ resp' = NoResp
             /\ bodyRead' = FALSE
             /\ svcCalls' = <<c>>
             /\ svcResult' = res
             /\ engineCalls' = res.engine
             /\ trace' = res.steps
    /\ pending' = Tail(pending)
    /\ UNCHANGED <<maxBodySize, inflight, lvars>>

HandlerIdle ==
    /\ req = NoReq
    /\ resp = NoResp
    /\ bodyRead = FALSE
    /\ svcCalls = <<>>
    /\ svcResult = NoResult
    /\ engineCalls = <<>>
    /\ trace = <<>>

\* a serving process with one operation about to run: an accepted request,
\* or a direct call of the service
Init ==
    /\ maxBodySize \in 1..MaxBodyLimit
    /\ \/ inflight \in {<<r>> : r \in GenerateRequests \cup HealthRequests} /\ pending = <<>>
       \/ inflight = <<>> /\ pending \in {<<c>> : c \in DirectCalls}
    /\ HandlerIdle
    /\ mainPc = "wait"
    /\ servePc = "serving"
    /\ quit = 0
    /\ inShutdown = FALSE
    /\ serveErr = "none"
    /\ shutdownErr = "none"
    /\ exited = FALSE
    /\ exitCode = -1
    /\ exitCause = "none"

Next ==
    \/ HandleGenerate
    \/ HandleHealthCheck
    \/ CallGenerate

Spec == Init /\ [][Next]_vars

----------------------------------------------------------------------------
(* Process Supervisor *)

\* requests sent to the running server, one for each way a request can end
SmallBody == <<97>>
BigBody == [i \in 1..MaxBodyLen |-> 98]

ProbeRequests ==
    { [route |-> "/generate", method |-> "POST", query |-> <<>>,
       body |-> SmallBody, failAt |-> NoFail],
      [route |-> "/generate", method |-> "POST", query |-> << <<"0">> >>,
       body |-> SmallBody, failAt |-> NoFail],
      [route |-> "/generate", method |-> "POST", query |-> <<>>,
       body |-> <<>>, failAt |-> NoFail],
      [route |-> "/generate", method |-> "POST", query |-> <<>>,
       body |-> BigBody, failAt |-> NoFail],
      [route |-> "/generate", method |-> "POST", query |-> <<>>,
       body |-> SmallBody, failAt |-> 0],
      [route |-> "/generate", method |-> "GET", query |-> <<>>,
       body |-> BigBody, failAt |-> NoFail],
      [route |-> "/health", method |-> "GET", query |-> <<>>,
       body |-> <<>>, failAt |-> NoFail],
      [route |-> "/health", method |-> "POST", query |-> <<>>,
       body |-> BigBody, failAt |-> NoFail] }

Running == ~exited

Exit(code, cause) ==
    /\ exited' = TRUE
    /\ exitCode' = code
    /\ exitCause' = cause

\* main: go func() { ... srv.ListenAndServe() ... }()
MainGo ==
    /\ Running
    /\ mainPc = "go"
    /\ mainPc' = "notify"
    /\ servePc' = "listen"
    /\ UNCHANGED <<maxBodySize, inflight, pending, hvars, quit, inShutdown,
                   serveErr, shutdownErr, exited, exitCode, exitCause>>

\* main: quit := make(chan os.Signal, 1); signal.Notify(quit, SIGINT, SIGTERM)
MainNotify ==
    /\ Running
    /\ mainPc = "notify"
    /\ mainPc' = "wait"
    /\ UNCHANGED <<maxBodySize, inflight, pending, hvars, servePc, quit, inShutdown,
                   serveErr, shutdownErr, exited, exitCode, exitCause>>

\* SIGINT or SIGTERM is delivered to the registered channel; a signal that
\* finds the one-slot buffer full is dropped.  (A signal that arrives before
\* signal.Notify has the runtime's default disposition and is not modelled.)
Signal ==
    /\ Running
    /\ mainPc \notin {"go", "notify"}
    /\ quit = 0
    /\ quit' = 1
    /\ UNCHANGED <<maxBodySize, inflight, pending, hvars, mainPc, servePc, inShutdown,
                   serveErr, shutdownErr, exited, exitCode, exitCause>>

\* main: sig := <-quit
MainReceive ==
    /\ Running
    /\ mainPc = "wait"
    /\ quit = 1
    /\ quit' = 0
    /\ mainPc' = "shutdown"
    /\ UNCHANGED <<maxBodySize, inflight, pending, hvars, servePc, inShutdown,
                   serveErr, shutdownErr, exited, exitCode, exitCause>>

\* main: srv.Shutdown(ctx) marks the server as shutting down and closes its listeners
MainShutdown ==
    /\ Running
    /\ mainPc = "shutdown"
    /\ inShutdown' = TRUE
    /\ mainPc' = "draining"
    /\ UNCHANGED <<maxBodySize, inflight, pending, hvars, servePc, quit,
                   serveErr, shutdownErr, exited, exitCode, exitCause>>

MainShutdownDone_NoDrain ==
    /\ Running
    /\ mainPc = "draining"
    /\ mainPc' = "graceful"
    /\ shutdownErr' = "nil"
    /\ UNCHANGED <<maxBodySize, inflight, pending, hvars, servePc, quit, inShutdown,
                   serveErr, exited, exitCode, exitCause>>

\* srv.Shutdown returns nil once no request is in flight
MainShutdownDone ==
    /\ Running
    /\ mainPc = "draining"
    /\ inflight = <<>>
    /\ mainPc' = "graceful"
    /\ shutdownErr' = "nil"
    /\ UNCHANGED <<maxBodySize, inflight, pending, hvars, servePc, quit, inShutdown,
                   serveErr, exited, exitCode, exitCause>>

\* srv.Shutdown returns the context's error: the timeout elapsed with requests in flight
MainShutdownTimeout ==
    /\ Running
    /\ mainPc = "draining"
    /\ inflight # <<>>
    /\ mainPc' = "forced"
    /\ shutdownErr' = "deadline exceeded"
    /\ UNCHANGED <<maxBodySize, inflight, pending, hvars, servePc, quit, inShutdown,
                   serveErr, exited, exitCode, exitCause>>

MainFatal_ExitZero ==
    /\ Running
    /\ mainPc = "forced"
    /\ mainPc' = "done"
    /\ Exit(0, "shutdown")
    /\ UNCHANGED <<maxBodySize, inflight, pending, hvars, servePc, quit, inShutdown,
                   serveErr, shutdownErr>>

\* main: Shutdown failed: log "Server forced to shutdown", os.Exit(1)
MainFatal ==
    /\ Running
    /\ mainPc = "forced"
    /\ mainPc' = "done"
    /\ Exit(1, "shutdown")
    /\ UNCHANGED <<maxBodySize, inflight, pending, hvars, servePc, quit, inShutdown,
                   serveErr, shutdownErr>>

\* main: log "Server exited gracefully" and return
MainReturn ==
    /\ Running
    /\ mainPc = "graceful"
    /\ mainPc' = "done"
    /\ Exit(0, "return")
    /\ UNCHANGED <<maxBodySize, inflight, pending, hvars, servePc, quit, inShutdown,
                   serveErr, shutdownErr>>

\* goroutine: srv.ListenAndServe() binds the listener, fails to bind it, or
\* finds the server already shut down and returns ErrServerClosed
ServeListen ==
    /\ Running
    /\ servePc = "listen"
    /\ \/ inShutdown /\ servePc' = "closed" /\ serveErr' = "ErrServerClosed"
       \/ ~inShutdown /\ servePc' = "serving" /\ serveErr' = serveErr
       \/ ~inShutdown /\ servePc' = "failed" /\ serveErr' = "bind"
    /\ UNCHANGED <<maxBodySize, inflight, pending, hvars, mainPc, quit, inShutdown,
                   shutdownErr, exited, exitCode, exitCause>>

\* goroutine: the accept loop ends with an error that Shutdown did not cause
ServeAcceptError ==
    /\ Running
    /\ servePc = "serving"
    /\ ~inShutdown
    /\ servePc' = "failed"
    /\ serveErr' = "accept"
    /\ UNCHANGED <<maxBodySize, inflight, pending, hvars, mainPc, quit, inShutdown,
                   shutdownErr, exited, exitCode, exitCause>>

\* goroutine: the accept loop ends with ErrServerClosed after Shutdown; the
\* goroutine returns
ServeClosed ==
    /\ Running
    /\ servePc = "serving"
    /\ inShutdown
    /\ servePc' = "closed"
    /\ serveErr' = "ErrServerClosed"
    /\ UNCHANGED <<maxBodySize, inflight, pending, hvars, mainPc, quit, inShutdown,
                   shutdownErr, exited, exitCode, exitCause>>

ServeFatal_ExitZero ==
    /\ Running
    /\ servePc = "failed"
    /\ servePc' = "done"
    /\ Exit(0, "listen")
    /\ UNCHANGED <<maxBodySize, inflight, pending, hvars, mainPc, quit, inShutdown,
                   serveErr, shutdownErr>>

\* goroutine: err != nil && err != http.ErrServerClosed: log "Server failed to
\* start", os.Exit(1)
ServeFatal ==
    /\ Running
    /\ servePc = "failed"
    /\ servePc' = "done"
    /\ Exit(1, "listen")
    /\ UNCHANGED <<maxBodySize, inflight, pending, hvars, mainPc, quit, inShutdown,
                   serveErr, shutdownErr>>

\* the serving listener accepts a request
Accept ==
    /\ Running
    /\ servePc = "serving"
    /\ ~inShutdown
    /\ Len(inflight) < MaxInflight
    /\ \E r \in ProbeRequests : inflight' = Append(inflight, r)
    /\ UNCHANGED <<maxBodySize, pending, hvars, lvars>>

\* main() has loaded the config, built the service, the handler (with
\* cfg.MaxBodySize), the mux and the server, and is about to start the serving
\* goroutine
InitMain ==
    /\ maxBodySize = MaxBodyLimit
    /\ inflight = <<>>
    /\ pending = <<>>
    /\ HandlerIdle
    /\ mainPc = "go"
    /\ servePc = "none"
    /\ quit = 0
    /\ inShutdown = FALSE
    /\ serveErr = "none"
    /\ shutdownErr = "none"
    /\ exited = FALSE
    /\ exitCode = -1
    /\ exitCause = "none"

NextMain ==
    \/ MainGo
    \/ MainNotify
    \/ Signal
    \/ MainReceive
    \/ MainShutdown
    \/ MainShutdownDone
    \/ MainShutdownTimeout
    \/ MainFatal
    \/ MainReturn
    \/ ServeListen
    \/ ServeAcceptError
    \/ ServeClosed
    \/ ServeFatal
    \/ Accept
    \/ HandleGenerate
    \/ HandleHealthCheck

SpecMain == InitMain /\ [][NextMain]_vars

----------------------------------------------------------------------------
(* Properties of the Generation Service and the Request Handler, checked    *)
(* on the state the last operation left behind.                             *)

ValidInput(c) == Len(c.data) > 0 /\ c.size >= 1 /\ c.size <= 2048

\* the last operation was Handler.Generate serving a POST
ServedPost == req.route = "/generate" /\ req.method = "POST"

\* bytes of the request body the transport handed over before ending or failing
Delivered(r) == IF r.failAt = NoFail THEN Len(r.body) ELSE r.failAt

\* the body of the last request was read whole, is not empty and is within the limit
BodyAccepted ==
    /\ ServedPost
    /\ req.failAt = NoFail
    /\ Len(req.body) > 0
    /\ Len(req.body) <= maxBodySize

\* C1: Generate, called directly or through the handler, invokes the Encoding
\* Engine only for a non-empty payload and 1 <= size <= 2048; for an empty
\* payload or a size <= 0 or > 2048 it returns an error and makes no engine call.
C1_EngineOnlyOnValidInput ==
    /\ \A i \in 1..Len(engineCalls) :
         /\ Len(engineCalls[i].content) > 0
         /\ engineCalls[i].size >= 1
         /\ engineCalls[i].size <= 2048
    /\ \A i \in 1..Len(svcCalls) :
         ~ValidInput(svcCalls[i]) =>
            /\ svcResult.err # NilErr
            /\ svcResult.png = <<>>
            /\ engineCalls = <<>>

\* a direct call with a non-empty payload and size 2049 was rejected
C1_Witness ==
    /\ req = NoReq
    /\ svcCalls = << [data |-> <<97>>, size |-> 2049] >>
    /\ svcResult.err # NilErr
    /\ engineCalls = <<>>

\* C2 as stated: absent size -> the service is called with 256; present size
\* that does not parse or lies outside [1, 2048] -> 400 and no service call;
\* present size in [1, 2048] -> passed unchanged.
C2_Original ==
    BodyAccepted =>
        IF req.query = <<>>
        THEN svcCalls = << [data |-> req.body, size |-> 256] >>
        ELSE LET p == Atoi(req.query[1]) IN
             IF p.err \/ p.n < 1 \/ p.n > 2048
             THEN resp.status = 400 /\ svcCalls = <<>>
             ELSE svcCalls = << [data |-> req.body, size |-> p.n] >>

\* C2 amended: a size parameter that is absent or present with an empty value
\* gives size 256; a non-empty value that does not parse or lies outside
\* [1, 2048] gives 400 and no service call ("0", "2049", "abc" among them); a
\* non-empty value in [1, 2048] is passed unchanged ("1" and "2048" among them).
C2_SizeParameter ==
    BodyAccepted =>
        /\ IF QueryGet(req.query) = <<>>
           THEN svcCalls = << [data |-> req.body, size |-> 256] >>
           ELSE LET p == Atoi(req.query[1]) IN
                IF p.err \/ p.n < 1 \/ p.n > 2048
                THEN /\ resp.status = 400
                     /\ resp.text = "Invalid size parameter: must be between 1 and 2048\n"
                     /\ svcCalls = <<>>
                ELSE svcCalls = << [data |-> req.body, size |-> p.n] >>
        /\ req.query \in { << <<"0">> >>, << <<"2","0","4","9">> >>, << <<"a","b","c">> >> }
             => resp.status = 400 /\ svcCalls = <<>>
        /\ req.query = << <<"1">> >> => svcCalls = << [data |-> req.body, size |-> 1] >>
        /\ req.query = << <<"2","0","4","8">> >>
             => svcCalls = << [data |-> req.body, size |-> 2048] >>

\* size=2048 was accepted and reached the service as 2048
C2_Witness ==
    /\ BodyAccepted
    /\ req.query = << <<"2","0","4","8">> >>
    /\ svcCalls = << [data |-> req.body, size |-> 2048] >>

\* C3 as stated: a POST whose body is longer than the maximum gets 413 and no
\* service call; a body of at most the maximum is never answered 413.
C3_Original ==
    ServedPost =>
        /\ Len(req.body) > maxBodySize => resp.status = 413 /\ svcCalls = <<>>
        /\ Len(req.body) <= maxBodySize => resp.status # 413

\* C3 amended: a POST whose body is longer than the maximum never reaches the
\* service; it gets 413 when more than the maximum number of bytes are
\* delivered, and 500 when the read fails before that; a body of at most the
\* maximum is never answered 413.
C3_BodyLimit ==
    ServedPost =>
        /\ Len(req.body) > maxBodySize =>
             /\ svcCalls = <<>>
             /\ engineCalls = <<>>
             /\ resp.status = IF Delivered(req) > maxBodySize THEN 413 ELSE 500
        /\ Len(req.body) <= maxBodySize => resp.status # 413

\* an oversize body, delivered whole, was answered 413
C3_Witness ==
    /\ ServedPost
    /\ Len(req.body) > maxBodySize
    /\ req.failAt = NoFail
    /\ resp.status = 413
    /\ svcCalls = <<>>

\* C4: a /generate request whose method is not POST gets 405, its body is
\* never read and the service is not invoked, whatever the body and the size.
C4_MethodNotAllowed ==
    (req.route = "/generate" /\ req.method # "POST") =>
        /\ resp.status = 405
        /\ bodyRead = FALSE
        /\ svcCalls = <<>>
        /\ engineCalls = <<>>

\* a PUT with an oversize body and an invalid size was answered 405
C4_Witness ==
    /\ req.route = "/generate"
    /\ req.method = "PUT"
    /\ Len(req.body) > maxBodySize
    /\ req.query = << <<"0">> >>
    /\ resp.status = 405
    /\ bodyRead = FALSE

\* C5: a POST whose body is read successfully and is empty gets 400 with the
\* "empty" message, never 413 or 500, whatever the size parameter, and the
\* service is not invoked.
C5_EmptyBody ==
    (ServedPost /\ req.failAt = NoFail /\ Len(req.body) = 0) =>
        /\ resp.status = 400
        /\ resp.text = "Request body is empty\n"
        /\ svcCalls = <<>>
        /\ engineCalls = <<>>

\* an empty POST with an unparsable size was answered 400 "empty"
C5_Witness ==
    /\ ServedPost
    /\ req.failAt = NoFail
    /\ req.body = <<>>
    /\ req.query = << <<"a","b","c">> >>
    /\ resp.status = 400
    /\ resp.text = "Request body is empty\n"

\* C6: when the handler has called the service, a success becomes 200,
\* image/png and exactly the bytes the service returned; an error becomes 500
\* with the generic message, no image bytes and nothing of the error's text.
C6_AllOrNothing ==
    (req.route = "/generate" /\ svcCalls # <<>>) =>
        IF svcResult.err = NilErr
        THEN /\ resp.status = 200
             /\ resp.contentType = "image/png"
             /\ resp.bytes = svcResult.png
             /\ resp.text = ""
        ELSE /\ resp.status = 500
             /\ resp.text = "Internal server error\n"
             /\ resp.text # svcResult.err \o "\n"
             /\ resp.bytes = <<>>
             /\ resp.contentType # "image/png"

\* the service failed and the handler answered 500
C6_Witness ==
    /\ req.route = "/generate"
    /\ svcCalls # <<>>
    /\ svcResult.err # NilErr
    /\ resp.status = 500

\* C10 as stated: for a non-empty payload and a size in [1, 2048], Generate
\* returns a non-empty image and no error.
C10_Original ==
    \A i \in 1..Len(svcCalls) :
        ValidInput(svcCalls[i]) => svcResult.err = NilErr /\ svcResult.png # <<>>

\* C10 amended: for a non-empty payload and a size in [1, 2048], Generate
\* calls the engine exactly once, with that payload, that size and the Medium
\* level, and returns what the engine produced: its non-empty image and no
\* error when the engine succeeds, an error and no image when it fails.
C10_ValidInputResult ==
    \A i \in 1..Len(svcCalls) :
        ValidInput(svcCalls[i]) =>
            /\ Len(engineCalls) = 1
            /\ engineCalls[1].content = svcCalls[i].data
            /\ engineCalls[1].size = svcCalls[i].size
            /\ engineCalls[1].level = "Medium"
            /\ IF engineCalls[1].out.ok
               THEN /\ svcResult.err = NilErr
                    /\ svcResult.png = engineCalls[1].out.png
                    /\ svcResult.png # <<>>
               ELSE /\ svcResult.err # NilErr
                    /\ svcResult.png = <<>>

\* a direct call with valid input returned the engine's image
C10_Witness ==
    /\ req = NoReq
    /\ svcCalls = << [data |-> <<97, 98>>, size |-> 2048] >>
    /\ svcResult.err = NilErr
    /\ svcResult.png = <<137, 80, 78>>

----------------------------------------------------------------------------
(* Properties of the running process, checked under SpecMain.               *)

\* C7: /health answers 200 with the JSON body {"status":"ok"} for every
\* method and payload, in every state of the service, and never invokes the
\* Generation Service.
C7_HealthAlwaysOk ==
    req.route = "/health" =>
        /\ resp.status = 200
        /\ resp.contentType = "application/json"
        /\ resp.text = "{\"status\":\"ok\"}" \o "\n"
        /\ resp.bytes = <<>>
        /\ bodyRead = FALSE
        /\ svcCalls = <<>>
        /\ engineCalls = <<>>

\* a POST to /health with a body over the limit was answered 200 while the
\* server was shutting down
C7_Witness ==
    /\ req.route = "/health"
    /\ req.method = "POST"
    /\ Len(req.body) > maxBodySize
    /\ inShutdown
    /\ resp.status = 200

\* the process ended through one of the three statements that can end it
ExitStatement == exitCause \in {"return", "listen", "shutdown"}

C9_Original ==
    serveErr = "bind" =>
        /\ mainPc = "notify"
        /\ exited => exitCode # 0

\* C9 amended: when the listener fails to start, the serve path's next step
\* is the exit with code 1, which waits for no signal and no shutdown; the
\* main path does not wait for the bind and may already be in the signal wait
\* or past it, and the process exits non-zero unless main returns from a
\* completed shutdown first.
C9_BindFailure ==
    serveErr = "bind" =>
        /\ Running => servePc = "failed" /\ ENABLED ServeFatal
        /\ exited =>
             \/ exitCode = 1 /\ exitCause = "listen" /\ servePc = "done"
             \/ exitCode = 0 /\ exitCause = "return" /\ shutdownErr = "nil"

\* the bind failed and the process exited 1 while main was in the signal wait
C9_Witness ==
    /\ serveErr = "bind"
    /\ exited
    /\ exitCode = 1
    /\ exitCause = "listen"
    /\ mainPc = "wait"

----------------------------------------------------------------------------
(* Order of the checks within one /generate request, checked under Spec.    *)

\* the steps of a /generate request in their order; a request stops at its
\* first failing step, and a finished one ends with how it ended
StepOrder == <<"method", "read", "empty", "size", "validate", "encode", "write">>

IsPrefix(s, t) == Len(s) <= Len(t) /\ SubSeq(t, 1, Len(s)) = s

\* the size value of the last request is present, non-empty and not a
\* decimal integer in [1, 2048]
SizeInvalid ==
    /\ QueryGet(req.query) # <<>>
    /\ LET p == Atoi(req.query[1]) IN p.err \/ p.n < 1 \/ p.n > 2048

\* the check that fails first for the last request, from its fields alone
FirstFailure ==
    IF req.method # "POST" THEN "method"
    ELSE IF Delivered(req) > maxBodySize \/ req.failAt # NoFail THEN "read"
    ELSE IF Len(req.body) = 0 THEN "empty"
    ELSE IF SizeInvalid THEN "size"
    ELSE "none"

\* C11: within one /generate request the checks run in the order method,
\* guarded body read, emptiness, size parameter, domain validation, encode,
\* response write; the first failing check alone decides the status (non-POST
\* beats an oversize body, an oversize body beats an invalid size, an empty
\* body beats an invalid size), and no later step runs after a failure.
C11_StrictOrder ==
    req.route = "/generate" =>
        /\ \E k \in 1..Len(StepOrder) :
             \/ trace = SubSeq(StepOrder, 1, k)
             \/ trace = SubSeq(StepOrder, 1, k) \o <<"error">>
             \/ trace = StepOrder \o <<"completed">>
             \/ trace = StepOrder \o <<"write_failed">>
        /\ bodyRead = (Len(trace) >= 2)
        /\ (svcCalls # <<>>) = (Len(trace) >= 5)
        /\ (engineCalls # <<>>) = (Len(trace) >= 6)
        /\ FirstFailure = "method" =>
             trace = <<"method">> /\ resp.status = 405
        /\ FirstFailure = "read" =>
             /\ trace = <<"method", "read">>
             /\ resp.status = IF Delivered(req) > maxBodySize THEN 413 ELSE 500
        /\ FirstFailure = "empty" =>
             /\ trace = <<"method", "read", "empty">>
             /\ resp.status = 400
             /\ resp.text = "Request body is empty\n"
        /\ FirstFailure = "size" =>
             /\ trace = <<"method", "read", "empty", "size">>
             /\ resp.status = 400
             /\ resp.text = "Invalid size parameter: must be between 1 and 2048\n"
        /\ FirstFailure = "none" =>
             /\ IsPrefix(SubSeq(StepOrder, 1, 6), trace)
             /\ resp.status \in {200, 500}
             /\ resp.status = 200 <=> IsPrefix(StepOrder, trace)
             /\ resp.status = 500 <=> trace = SubSeq(StepOrder, 1, 6) \o <<"error">>

\* a POST with an oversize body and an invalid size was answered 413 after
\* the read, without the size being looked at
C11_Witness ==
    /\ ServedPost
    /\ Len(req.body) > maxBodySize
    /\ req.failAt = NoFail
    /\ req.query = << <<"0">> >>
    /\ resp.status = 413
    /\ trace = <<"method", "read">>

----------------------------------------------------------------------------
(* Server lifecycle, checked under SpecMain.                                *)

\* the lifecycle states of the server
Serving == Running /\ servePc = "serving" /\ ~inShutdown
ShuttingDown == Running /\ inShutdown
Stopped == exited

----------------------------------------------------------------------------
(* What the handler delegates, checked under Spec.                          *)

\* C13: every call the /generate handler makes to the Generation Service
\* carries a non-empty payload and a size in [1, 2048], so the service's own
\* empty-payload and invalid-size rejections cannot happen through the
\* handler, and every 500 answered after delegation comes from a failure of
\* the Encoding Engine.
C13_DelegatedInputValid ==
    (req.route = "/generate" /\ svcCalls # <<>>) =>
        /\ Len(svcCalls) = 1
        /\ Len(svcCalls[1].data) > 0
        /\ svcCalls[1].size >= 1
        /\ svcCalls[1].size <= 2048
        /\ svcResult.err \notin { "data cannot be empty",
                                  "invalid size: must be between 1 and 2048" }
        /\ Len(engineCalls) = 1
        /\ resp.status = 500 =>
             /\ ~engineCalls[1].out.ok
             /\ svcResult.err = "failed to encode QR code: " \o engineCalls[1].out.cause
        /\ resp.status # 500 => engineCalls[1].out.ok /\ resp.status = 200

\* size=2048 with a one-byte body was delegated, the engine failed and the
\* handler answered 500
C13_Witness ==
    /\ ServedPost
    /\ req.query = << <<"2","0","4","8">> >>
    /\ svcCalls = << [data |-> req.body, size |-> 2048] >>
    /\ Len(engineCalls) = 1
    /\ ~engineCalls[1].out.ok
    /\ resp.status = 500

====
